---- MODULE Spec2Model ----
(***************************************************************************)
(* Model of the bybit-candles-three-bot scanner: the trade guard           *)
(* (trader.py), the pattern detectors (patterns.py), the universe selector *)
(* (data_fetch.py) and the retry-wrapped scan cycle (main.py).             *)
(***************************************************************************)
EXTENDS Integers, Sequences, FiniteSets, TLC

\* ------------------------------------------------------------------------
\* Bounds of the model
\* ------------------------------------------------------------------------
MaxCap == 2
MaxGuardPositions == 2
MaxGuardOrders == 2
MaxTickers == 3
MaxTopN == 2
MaxCycles == 2
MaxOrderIds == 2

\* ------------------------------------------------------------------------
\* Generic helpers
\* ------------------------------------------------------------------------
Abs(x) == IF x < 0 THEN -x ELSE x

Range(s) == {s[i] : i \in 1..Len(s)}

SeqsUpTo(S, n) == UNION {[1..k -> S] : k \in 0..n}

\* ------------------------------------------------------------------------
\* trader.py : can_open_for_symbol
\* ------------------------------------------------------------------------
\* p.get("size", 0) or 0 : a position entry without a size counts as 0
SizeOf(p) == IF "size" \in DOMAIN p THEN p.size ELSE 0

NonZero(positions) == SelectSeq(positions, LAMBDA p : Abs(SizeOf(p)) > 0)

PositionsBlock(positions, cap) == Len(NonZero(positions)) >= cap

OrdersBlock(orders, cap) == Len(orders) >= cap

can_open_for_symbol(positions, orders, cap) ==
    IF PositionsBlock(positions, cap) THEN FALSE
    ELSE IF OrdersBlock(orders, cap) THEN FALSE
    ELSE TRUE

\* ------------------------------------------------------------------------
\* trader.py : cancel_stale_orders
\* ------------------------------------------------------------------------
\* int(o.get("createdTime", o.get("updatedTime", now_ms)))
OrderTs(o, now_ms) ==
    IF "createdTime" \in DOMAIN o THEN o.createdTime
    ELSE IF "updatedTime" \in DOMAIN o THEN o.updatedTime
    ELSE now_ms

IsStaleMut(o, now_ms, ttl_minutes) == (now_ms - OrderTs(o, now_ms)) > ttl_minutes * 60 * 1000
IsStale(o, now_ms, ttl_minutes) == (now_ms - OrderTs(o, now_ms)) >= ttl_minutes * 60 * 1000

\* the orderIds for which the loop issues api.cancel_order, in list order
cancel_stale_orders(orders, now_ms, ttl_minutes) ==
    SelectSeq(orders, LAMBDA o : IsStale(o, now_ms, ttl_minutes))

\* ------------------------------------------------------------------------
\* Candle series (data_fetch.get_ohlcv result).  Prices and volumes are
\* integers (exchange ticks).  A series of n candles is carried as its
\* length, its last min(n, 4) candles (tail) and a summary of the candles
\* before the tail: their last close (prevClose), the Wilder ATR reached
\* there (atrPrev), the volume sum of the 16 candles before the tail
\* (volPrev) and the indicator values the library yields at the last index.
\* Ratios are integer hundredths; the MACD histogram and its tolerance are
\* integer ten-thousandths.
\* ------------------------------------------------------------------------
None == [side |-> "None"]

Min2(a, b) == IF a < b THEN a ELSE b
Max2(a, b) == IF a > b THEN a ELSE b

\* num / max(hl, 1e-12) < pct / 100, exactly, for integer prices
RatioLT(num, hl, pct) ==
    IF hl > 0 THEN num * 100 < pct * hl
    ELSE num < 0 \/ (num = 0 /\ pct > 0)

\* num / max(hl, 1e-12) > pct / 100, exactly, for integer prices
RatioGT(num, hl, pct) ==
    IF hl > 0 THEN num * 100 > pct * hl
    ELSE num > 0 \/ (num = 0 /\ pct < 0)

\* patterns.py : _body_ratio(o, c, h, l) < min_body_ratio
BodyTooSmall(k, min_body_ratio) ==
    RatioLT(Abs(k.close - k.open), k.high - k.low, min_body_ratio)

\* patterns.py : _pick_last_segment
_pick_last_segment(df, use_last_candle) ==
    LET t == df.tail
        m == Len(t)
    IN IF df.n < 4 THEN SubSeq(t, Max2(1, m - 2), m)
       ELSE IF use_last_candle THEN SubSeq(t, m - 2, m)
       ELSE SubSeq(t, m - 3, m - 1)

\* ------------------------------------------------------------------------
\* Indicator library (indicators.py): ema, rsi, macd, atr at the last index
\* ------------------------------------------------------------------------
NaN == [nan |-> TRUE, v |-> 0]
Num(x) == [nan |-> FALSE, v |-> x]
FGt(a, b) == ~a.nan /\ ~b.nan /\ a.v > b.v
FLt(a, b) == ~a.nan /\ ~b.nan /\ a.v < b.v

\* ema(series, length): undefined before the seed of `length` values
ema(df, length) ==
    IF df.n < length THEN NaN
    ELSE IF length = 50 THEN Num(df.ind.ema50) ELSE Num(df.ind.ema200)

\* rsi(series, 14): Wilder RSI, range [0, 100]
rsi(df) == df.ind.rsi

\* macd(series): histogram = MACD line - signal line
macd_hist(df) == df.ind.hist

TrueRange(k, prev_close) ==
    Max2(k.high - k.low, Max2(Abs(k.high - prev_close), Abs(k.low - prev_close)))

RECURSIVE Pow(_, _)
Pow(b, e) == IF e = 0 THEN 1 ELSE b * Pow(b, e - 1)

\* Wilder smoothing a' = (13 a + TR) / 14 over the tail, as the numerator
\* over 14^i after i tail candles
RECURSIVE WilderNum(_, _)
WilderNum(df, i) ==
    IF i = 0 THEN df.atrPrev
    ELSE 13 * WilderNum(df, i - 1)
         + Pow(14, i - 1)
           * TrueRange(df.tail[i], IF i = 1 THEN df.prevClose ELSE df.tail[i - 1].close)

\* atr(df, 14).iloc[-1] in units of 1 / AtrDen(df)
atr(df) == WilderNum(df, Len(df.tail))
AtrDen(df) == Pow(14, Len(df.tail))

\* prices of a signal are fixed-point numbers in units of 1 / PxScale(df)
PxScale(df) == AtrDen(df) * 10

\* sum and count of df['volume'].iloc[-20:]
RECURSIVE SumVol(_, _)
SumVol(t, i) == IF i = 0 THEN 0 ELSE t[i].volume + SumVol(t, i - 1)
Vol20Sum(df) == df.volPrev + SumVol(df.tail, Len(df.tail))
Vol20Cnt(df) == Min2(df.n, 20)

\* v.mean() <= 0 or v.iloc[-1] < vol_min_ratio * v.mean()
VolumeRejects(df, vol_min_ratio) ==
    \/ Vol20Sum(df) <= 0
    \/ df.tail[Len(df.tail)].volume * 100 * Vol20Cnt(df) < vol_min_ratio * Vol20Sum(df)

\* patterns.py lines 23-24 / 93-94
MinHistory == 60
TooShortMut(df) == df.n < 3
TooShort(df) == df.n < MinHistory

\* patterns.py lines 25-29 / 95-99: relax_mode widens the thresholds
RelaxFloorMut(x, relax_mode, bound) == IF relax_mode THEN bound ELSE x
RelaxFloor(x, relax_mode, bound) == IF relax_mode THEN Min2(x, bound) ELSE x
RelaxCeil(x, relax_mode, bound) == IF relax_mode THEN Max2(x, bound) ELSE x

\* patterns.py lines 70-71: LONG levels
LongStop(low2, entry, atr14) == Min2(low2 * 10, entry * 10 - atr14 * 5)
LongTarget(entry, atr14) == entry * 10 + atr14 * 36

\* patterns.py lines 140-141: SHORT levels
ShortStop(high2, entry, atr14) == Max2(high2 * 10, entry * 10 + atr14 * 5)
ShortTarget(entry, atr14) == entry * 10 - atr14 * 36

\* patterns.py : detect_three_white_soldiers(df, **a)
detect_three_white_soldiers(df, a) ==
    IF TooShort(df) THEN None
    ELSE
    LET min_body_ratio == RelaxFloor(a.min_body_ratio, a.relax_mode, 45)
        max_upper_wick == RelaxCeil(a.max_upper_wick, a.relax_mode, 50)
        rsi_min == RelaxFloor(a.rsi_min, a.relax_mode, 45)
        rsi_max == RelaxCeil(a.rsi_max, a.relax_mode, 75)
        last == _pick_last_segment(df, a.use_last_candle)
        CandleOk(k) ==
            /\ ~(k.close <= k.open)
            /\ ~BodyTooSmall(k, min_body_ratio)
            /\ ~RatioGT(k.high - Max2(k.open, k.close), k.high - k.low, max_upper_wick)
        d == AtrDen(df)
        atr14 == atr(df)
        close3 == last[3].close
    IN IF \E i \in 1..3 : ~CandleOk(last[i]) THEN None
       ELSE IF ~(last[2].close > last[1].close /\ last[3].close > last[2].close) THEN None
       ELSE IF a.use_ema /\ ~FGt(ema(df, 50), ema(df, 200)) THEN None
       ELSE IF a.use_rsi /\ ~(rsi_min <= rsi(df) /\ rsi(df) <= rsi_max) THEN None
       ELSE IF a.use_macd /\ ~(macd_hist(df) > -a.macd_tol) THEN None
       ELSE IF a.use_vol /\ VolumeRejects(df, a.vol_min_ratio) THEN None
       ELSE [side |-> "LONG",
             entry_close |-> close3 * d * 10,
             entry_retest |-> (last[2].open + last[2].close) * d * 5,
             sl |-> LongStop(last[2].low * d, close3 * d, atr14),
             tp |-> LongTarget(close3 * d, atr14),
             atr |-> atr14 * 10]

\* patterns.py : detect_three_black_crows(df, **a)
detect_three_black_crows(df, a) ==
    IF TooShort(df) THEN None
    ELSE
    LET min_body_ratio == RelaxFloor(a.min_body_ratio, a.relax_mode, 45)
        max_lower_wick == RelaxCeil(a.max_lower_wick, a.relax_mode, 50)
        rsi_min == RelaxFloor(a.rsi_min, a.relax_mode, 25)
        rsi_max == RelaxCeil(a.rsi_max, a.relax_mode, 55)
        last == _pick_last_segment(df, a.use_last_candle)
        CandleOk(k) ==
            /\ ~(k.close >= k.open)
            /\ ~BodyTooSmall(k, min_body_ratio)
            /\ ~RatioGT(Min2(k.open, k.close) - k.low, k.high - k.low, max_lower_wick)
        d == AtrDen(df)
        atr14 == atr(df)
        close3 == last[3].close
    IN IF \E i \in 1..3 : ~CandleOk(last[i]) THEN None
       ELSE IF ~(last[2].close < last[1].close /\ last[3].close < last[2].close) THEN None
       ELSE IF a.use_ema /\ ~FLt(ema(df, 50), ema(df, 200)) THEN None
       ELSE IF a.use_rsi /\ ~(rsi_min <= rsi(df) /\ rsi(df) <= rsi_max) THEN None
       ELSE IF a.use_macd /\ ~(macd_hist(df) < a.macd_tol) THEN None
       ELSE IF a.use_vol /\ VolumeRejects(df, a.vol_min_ratio) THEN None
       ELSE [side |-> "SHORT",
             entry_close |-> close3 * d * 10,
             entry_retest |-> (last[2].open + last[2].close) * d * 5,
             sl |-> ShortStop(last[2].high * d, close3 * d, atr14),
             tp |-> ShortTarget(close3 * d, atr14),
             atr |-> atr14 * 10]

\* keyword arguments main.process_symbol passes to the two detectors
LongArgs(cfg) ==
    [use_ema |-> cfg.USE_EMA, use_rsi |-> cfg.USE_RSI, use_macd |-> cfg.USE_MACD,
     use_vol |-> cfg.USE_VOLUME, min_body_ratio |-> cfg.MIN_BODY_RATIO,
     max_upper_wick |-> cfg.MAX_UPPER_WICK,
     rsi_min |-> cfg.RSI_MIN_LONG, rsi_max |-> cfg.RSI_MAX_LONG,
     macd_tol |-> cfg.MACD_TOL, vol_min_ratio |-> cfg.VOL_MIN_RATIO,
     relax_mode |-> cfg.RELAX_MODE, use_last_candle |-> cfg.USE_LAST_CANDLE]

ShortArgs(cfg) ==
    [use_ema |-> cfg.USE_EMA, use_rsi |-> cfg.USE_RSI, use_macd |-> cfg.USE_MACD,
     use_vol |-> cfg.USE_VOLUME, min_body_ratio |-> cfg.MIN_BODY_RATIO,
     max_lower_wick |-> cfg.MAX_LOWER_WICK,
     rsi_min |-> cfg.RSI_MIN_SHORT, rsi_max |-> cfg.RSI_MAX_SHORT,
     macd_tol |-> cfg.MACD_TOL, vol_min_ratio |-> cfg.VOL_MIN_RATIO,
     relax_mode |-> cfg.RELAX_MODE, use_last_candle |-> cfg.USE_LAST_CANDLE]

\* main.py : process_symbol, on the series get_ohlcv returned for (sym, tf)
process_symbol(df, cfg, sym, tf) ==
    IF df.n = 0 \/ df.n < MinHistory THEN None
    ELSE LET long_info == detect_three_white_soldiers(df, LongArgs(cfg))
             short_info == detect_three_black_crows(df, ShortArgs(cfg))
         IN IF long_info # None
            THEN [side |-> "LONG", sym |-> sym, info |-> long_info, timeframe |-> tf]
            ELSE IF short_info # None
            THEN [side |-> "SHORT", sym |-> sym, info |-> short_info, timeframe |-> tf]
            ELSE None

\* ------------------------------------------------------------------------
\* data_fetch.py : get_universe (TURNOVER mode)
\* ------------------------------------------------------------------------
\* str.endswith(quote), on names as character sequences
EndsWith(name, quote) ==
    /\ Len(name) >= Len(quote)
    /\ SubSeq(name, Len(name) - Len(quote) + 1, Len(name)) = quote

\* pd.to_numeric(raw, errors="coerce")
ToNumeric(raw) ==
    CASE raw = "5" -> Num(5)
      [] raw = "7" -> Num(7)
      [] raw = "7.0" -> Num(7)
      [] OTHER -> NaN

\* df[df["symbol"].str.endswith(quote)] with turnover24h coerced
FilterQuote(rows, quote) ==
    LET kept == SelectSeq(rows, LAMBDA r : EndsWith(r.symbol, quote))
    IN [i \in 1..Len(kept) |->
           [symbol |-> kept[i].symbol, turnover24h |-> ToNumeric(kept[i].turnover24h)]]

\* a must come before b in sort_values(ascending=False): NaN sorts last
SortsBefore(a, b) ==
    \/ ~a.turnover24h.nan /\ b.turnover24h.nan
    \/ FGt(a.turnover24h, b.turnover24h)

Perms(n) == {f \in [1..n -> 1..n] : \A i, j \in 1..n : i # j => f[i] # f[j]}

\* the orders sort_values("turnover24h", ascending=False) may produce: the
\* default sort is not stable, rows of equal turnover come in any order
SortDescending(rows) ==
    { [i \in 1..Len(rows) |-> rows[f[i]]] : f \in
        { g \in Perms(Len(rows)) :
            \A i, j \in 1..Len(rows) : i < j => ~SortsBefore(rows[g[j]], rows[g[i]]) } }

\* DataFrame.head(top_n), top_n >= 0
head_nMut(rows, top_n) == rows
head_n(rows, top_n) == SubSeq(rows, 1, Min2(top_n, Len(rows)))

\* the row lists get_universe may return the symbols of, in TURNOVER mode
get_universe(rows, quote, top_n) ==
    IF Len(rows) = 0 THEN {<<>>}
    ELSE { head_n(sorted, top_n) : sorted \in SortDescending(FilterQuote(rows, quote)) }

\* ------------------------------------------------------------------------
\* State
\* ------------------------------------------------------------------------
VARIABLES
    guardIn,    \* trade guard called on its own: exchange lists, cap, clock, ttl
    guardOut,   \* its results
    detIn,      \* detectors called on their own: series and configuration
    detOut,     \* their results
    uniIn,      \* universe selector called on its own: tickers, quote, top_n
    uniOut,     \* its result
    apiIn,      \* an exchange client method called on its own: credentials, arguments
    apiOut,     \* the request it sent and how the call ended
    cfg,        \* main.load_cfg(): the configuration of the run
    pc,         \* position of the process in main() / run_once()
    cycle,      \* number of run_once calls main() has made
    attempt,    \* tenacity attempt number of the current run_once call, 0 without one
    now_ms,     \* wall clock, milliseconds
    positions,  \* exchange: position entries per symbol
    orders,     \* exchange: open orders per symbol
    nextId,     \* exchange: next order id
    symbols,    \* run_once: the universe of this attempt
    si,         \* run_once: index of the symbol being processed
    tfi,        \* run_once: index into tf_list
    sig,        \* run_once: the signal of the current symbol, or None
    order_id,   \* run_once: the order id place_signal_order returned
    found,      \* run_once: signals found in this attempt
    calls,      \* collaborator calls made for the current symbol in this attempt
    rows_for_db,\* run_once: the audit rows built from found
    db,         \* run_once: how the insert_signals call of this attempt ended
    count,      \* main(): the value run_once returned, -1 when there is none to log
    raised,     \* the call whose exception left run_once, while tenacity holds it
    sent        \* Telegram: messages sent by the attempt running or just ended

guardVars == <<guardIn, guardOut>>
detVars == <<detIn, detOut>>
uniVars == <<uniIn, uniOut>>
apiVars == <<apiIn, apiOut>>
exchVars == <<positions, orders, nextId>>
localVars == <<symbols, si, tfi, sig, order_id, found, calls>>
endVars == <<rows_for_db, db, count>>
msgVars == <<raised, sent>>
botVars == <<cfg, pc, cycle, attempt, now_ms, positions, orders, nextId,
             symbols, si, tfi, sig, order_id, found, calls, rows_for_db, db, count,
             raised, sent>>

Off == [phase |-> "off"]

\* ------------------------------------------------------------------------
\* Detector inputs
\* ------------------------------------------------------------------------
\* candle shapes, as offsets from the previous close
BullStrong == [o |-> 0, c |-> 4, h |-> 5, l |-> 0]
BullMid == [o |-> 0, c |-> 2, h |-> 4, l |-> 0]
BullLoose == [o |-> 0, c |-> 2, h |-> 5, l |-> 0]
BearStrong == [o |-> 0, c |-> -4, h |-> 0, l |-> -5]
BearMid == [o |-> 0, c |-> -2, h |-> 0, l |-> -4]
BearLoose == [o |-> 0, c |-> -2, h |-> 0, l |-> -5]
FlatBull == [o |-> 0, c |-> 1, h |-> 0, l |-> 0]
FlatBear == [o |-> 0, c |-> -1, h |-> 0, l |-> 0]

Shapes == {BullStrong, BullMid, BullLoose, BearStrong, BearMid, FlatBull, FlatBear}
UniformShapes == {BullStrong, BullMid, BearStrong, BearMid, BearLoose, FlatBull, FlatBear}

RECURSIVE CloseAfter(_, _, _)
CloseAfter(shapes, i, prevClose) ==
    IF i = 0 THEN prevClose ELSE CloseAfter(shapes, i - 1, prevClose) + shapes[i].c

\* the tail candles a sequence of shapes makes; vols[i] is candle i's volume
BuildTail(shapes, prevClose, vols) ==
    [i \in 1..Len(shapes) |->
        LET p == CloseAfter(shapes, i - 1, prevClose)
        IN [open |-> p + shapes[i].o, close |-> p + shapes[i].c,
            high |-> p + shapes[i].h, low |-> p + shapes[i].l,
            volume |-> vols[i]]]

\* history summaries: length and indicator values at the last index
Histories ==
    { [n |-> 250, ind |-> [ema50 |-> 42, ema200 |-> 41, rsi |-> 60, hist |-> 10]],
      [n |-> 250, ind |-> [ema50 |-> 42, ema200 |-> 41, rsi |-> 47, hist |-> -5]],
      [n |-> 250, ind |-> [ema50 |-> 41, ema200 |-> 42, rsi |-> 40, hist |-> -10]],
      [n |-> 250, ind |-> [ema50 |-> 41, ema200 |-> 42, rsi |-> 53, hist |-> 5]],
      [n |-> 250, ind |-> [ema50 |-> 41, ema200 |-> 41, rsi |-> 78, hist |-> 8]],
      [n |-> 60, ind |-> [ema50 |-> 42, ema200 |-> 0, rsi |-> 60, hist |-> 10]] }

\* volumes: <<sum of the 16 candles before the tail, tail candles 1..3, last>>
VolumeCases == { <<0, 0, 0>>, <<16, 1, 1>>, <<32, 2, 1>> }

MkSeries(hist, shapes, atrPrev, vc) ==
    [n |-> hist.n, ind |-> hist.ind, prevClose |-> 40, atrPrev |-> atrPrev,
     volPrev |-> IF hist.n > Len(shapes) THEN vc[1] ELSE 0,
     tail |-> BuildTail(shapes, 40,
                        [i \in 1..Len(shapes) |-> IF i = Len(shapes) THEN vc[3] ELSE vc[2]])]

\* thresholds: main.load_cfg defaults, and a configuration looser than the
\* relaxation bounds
DefaultThresholds ==
    [MIN_BODY_RATIO |-> 60, MAX_UPPER_WICK |-> 35, MAX_LOWER_WICK |-> 35,
     RSI_MIN_LONG |-> 50, RSI_MAX_LONG |-> 72, RSI_MIN_SHORT |-> 28, RSI_MAX_SHORT |-> 50,
     MACD_TOL |-> 8, VOL_MIN_RATIO |-> 60]

LooseThresholds ==
    [MIN_BODY_RATIO |-> 30, MAX_UPPER_WICK |-> 60, MAX_LOWER_WICK |-> 60,
     RSI_MIN_LONG |-> 40, RSI_MAX_LONG |-> 80, RSI_MIN_SHORT |-> 20, RSI_MAX_SHORT |-> 60,
     MACD_TOL |-> 8, VOL_MIN_RATIO |-> 60]

Flags(e, r, m, v, relax, lastc) ==
    [USE_EMA |-> e, USE_RSI |-> r, USE_MACD |-> m, USE_VOLUME |-> v,
     RELAX_MODE |-> relax, USE_LAST_CANDLE |-> lastc]

\* every window geometry, filters off
GeometryInputs ==
    { [df |-> MkSeries([n |-> 250, ind |-> [ema50 |-> 42, ema200 |-> 41, rsi |-> 60, hist |-> 10]],
                       sh, 0, <<16, 1, 1>>),
       cfg |-> thr @@ Flags(FALSE, FALSE, FALSE, FALSE, relax, lastc)] :
      sh \in [1..4 -> Shapes], thr \in {DefaultThresholds, LooseThresholds},
      relax \in BOOLEAN, lastc \in BOOLEAN }

\* every filter combination, on windows of one shape
FilterInputs ==
    { [df |-> MkSeries(hist, [i \in 1..4 |-> shp], atrPrev, vc),
       cfg |-> thr @@ Flags(e, r, m, v, relax, TRUE)] :
      hist \in Histories, shp \in UniformShapes, atrPrev \in {0, 1}, vc \in VolumeCases,
      thr \in {DefaultThresholds, LooseThresholds},
      e \in BOOLEAN, r \in BOOLEAN, m \in BOOLEAN, v \in BOOLEAN, relax \in BOOLEAN }

\* histories shorter than the minimum
ShortLens == {0, 1, 3, 20, 59}
ShortInputs ==
    { [df |-> MkSeries([n |-> len, ind |-> [ema50 |-> 42, ema200 |-> 41, rsi |-> 60, hist |-> 10]],
                       [i \in 1..Min2(len, 4) |-> shp], 0, <<16, 1, 1>>),
       cfg |-> thr @@ Flags(f, f, f, f, relax, lastc)] :
      len \in ShortLens, shp \in {BullStrong, BearStrong, FlatBull},
      thr \in {DefaultThresholds, LooseThresholds},
      f \in BOOLEAN, relax \in BOOLEAN, lastc \in BOOLEAN }

DetectInputs == GeometryInputs \cup FilterInputs \cup ShortInputs

\* ------------------------------------------------------------------------
\* The detectors called on their own
\* ------------------------------------------------------------------------
DetInit ==
    /\ detIn \in DetectInputs
    /\ detOut = [phase |-> "in"]

\* one process_symbol call, with the results of both detectors
DetScan ==
    /\ detOut.phase = "in"
    /\ detOut' = [phase |-> "scanned",
                  long |-> detect_three_white_soldiers(detIn.df, LongArgs(detIn.cfg)),
                  short |-> detect_three_black_crows(detIn.df, ShortArgs(detIn.cfg)),
                  sig |-> process_symbol(detIn.df, detIn.cfg, "S1", 1)]
    /\ UNCHANGED <<detIn, guardVars, uniVars, botVars, apiVars>>

\* both detectors with relax_mode disabled and with relax_mode enabled
DetRelax ==
    /\ detOut.phase = "scanned"
    /\ LET la == LongArgs(detIn.cfg)
           sa == ShortArgs(detIn.cfg)
       IN detOut' = [phase |-> "relaxed",
            longStrict |-> detect_three_white_soldiers(detIn.df, [la EXCEPT !.relax_mode = FALSE]),
            longRelaxed |-> detect_three_white_soldiers(detIn.df, [la EXCEPT !.relax_mode = TRUE]),
            shortStrict |-> detect_three_black_crows(detIn.df, [sa EXCEPT !.relax_mode = FALSE]),
            shortRelaxed |-> detect_three_black_crows(detIn.df, [sa EXCEPT !.relax_mode = TRUE])]
    /\ UNCHANGED <<detIn, guardVars, uniVars, botVars, apiVars>>

\* both detectors with use_vol disabled and with use_vol enabled
DetVolume ==
    /\ detOut.phase = "relaxed"
    /\ LET la == LongArgs(detIn.cfg)
           sa == ShortArgs(detIn.cfg)
       IN detOut' = [phase |-> "volume",
            longNoVol |-> detect_three_white_soldiers(detIn.df, [la EXCEPT !.use_vol = FALSE]),
            longVol |-> detect_three_white_soldiers(detIn.df, [la EXCEPT !.use_vol = TRUE]),
            shortNoVol |-> detect_three_black_crows(detIn.df, [sa EXCEPT !.use_vol = FALSE]),
            shortVol |-> detect_three_black_crows(detIn.df, [sa EXCEPT !.use_vol = TRUE])]
    /\ UNCHANGED <<detIn, guardVars, uniVars, botVars, apiVars>>

vars == <<guardIn, guardOut, detIn, detOut, uniIn, uniOut, apiIn, apiOut, cfg, pc, cycle,
          attempt, now_ms,
          positions, orders, nextId, symbols, si, tfi, sig, order_id, found, calls,
          rows_for_db, db, count, raised, sent>>

\* the bot is not running: the state of the scan cycle while one of its
\* functions is exercised on its own
BotOff ==
    /\ cfg = Off /\ pc = "off" /\ cycle = 0 /\ attempt = 0 /\ now_ms = 0
    /\ positions = <<>> /\ orders = <<>> /\ nextId = 0
    /\ symbols = <<>> /\ si = 0 /\ tfi = 0 /\ sig = None /\ order_id = 0
    /\ found = <<>> /\ calls = <<>>
    /\ rows_for_db = <<>> /\ db = "none" /\ count = -1
    /\ raised = "none" /\ sent = <<>>

ApiOff == apiIn = Off /\ apiOut = Off

InitDetect ==
    /\ DetInit
    /\ guardIn = Off /\ guardOut = Off /\ uniIn = Off /\ uniOut = Off
    /\ BotOff
    /\ ApiOff

NextDetect == DetScan \/ DetRelax \/ DetVolume

SpecDetect == InitDetect /\ [][NextDetect]_vars

\* ------------------------------------------------------------------------
\* Claims about the detectors
\* ------------------------------------------------------------------------
\* the evaluation window of the series under test
DetWindow == _pick_last_segment(detIn.df, detIn.cfg.USE_LAST_CANDLE)

\* C7: for every series with fewer than 60 candles both detectors return
\* none, whatever the filters and flags, and process_symbol yields no signal.
C7_ShortHistoryNone ==
    (detOut.phase = "scanned" /\ detIn.df.n < 60)
        => (detOut.long = None /\ detOut.short = None /\ detOut.sig = None)

C7_Witness ==
    /\ detOut.phase = "scanned"
    /\ detIn.df.n = 59
    /\ detIn.df.tail[1].close > detIn.df.tail[1].open
    /\ ~detIn.cfg.USE_EMA
    /\ detOut.long = None

\* C8: every returned signal has stop_loss < entry_close < take_profit (LONG)
\* or take_profit < entry_close < stop_loss (SHORT), and entry_close is the
\* close of the third window candle, also when the ATR at the last index is 0.
C8_LevelOrdering ==
    detOut.phase = "scanned" =>
        /\ detOut.long # None =>
              /\ detOut.long.sl < detOut.long.entry_close
              /\ detOut.long.entry_close < detOut.long.tp
              /\ detOut.long.entry_close = DetWindow[3].close * PxScale(detIn.df)
        /\ detOut.short # None =>
              /\ detOut.short.tp < detOut.short.entry_close
              /\ detOut.short.entry_close < detOut.short.sl
              /\ detOut.short.entry_close = DetWindow[3].close * PxScale(detIn.df)

\* C9: a detector that returns a signal with relax_mode disabled returns a
\* signal for the same series and configuration with relax_mode enabled.
C9_RelaxMonotone ==
    detOut.phase = "relaxed" =>
        /\ detOut.longStrict # None => detOut.longRelaxed # None
        /\ detOut.shortStrict # None => detOut.shortRelaxed # None

C9_Witness ==
    /\ detOut.phase = "relaxed"
    /\ detOut.longStrict # None
    /\ detOut.longRelaxed # None
    /\ detIn.cfg.MIN_BODY_RATIO < 45
    /\ detIn.cfg.USE_RSI

\* C16: with use_vol enabled, a window that passes every other check yields a
\* signal exactly when its last volume is at least vol_min_ratio (hundredths)
\* times the mean of the trailing 20 volumes; a mean <= 0 skips the filter
\* and does not reject.
C16_VolumeFilterSkippedOnZeroMean ==
    detOut.phase = "volume" =>
        LET df == detIn.df
            passes == \/ Vol20Sum(df) <= 0
                      \/ df.tail[Len(df.tail)].volume * 100 * Vol20Cnt(df)
                            >= detIn.cfg.VOL_MIN_RATIO * Vol20Sum(df)
        IN /\ detOut.longNoVol # None =>
                 /\ detOut.longVol # None <=> passes
                 /\ detOut.longVol # None => detOut.longVol = detOut.longNoVol
           /\ detOut.shortNoVol # None =>
                 /\ detOut.shortVol # None <=> passes
                 /\ detOut.shortVol # None => detOut.shortVol = detOut.shortNoVol

\* ------------------------------------------------------------------------
\* The trade guard called on its own
\* ------------------------------------------------------------------------
GuardNow == 2 * 60 * 60 * 1000

\* position entries of get_positions: zero, long, short, and without a size
PositionEntries == { [size |-> 0], [size |-> 1], [size |-> -1], [positionIdx |-> 0] }

GuardAges == {3540000, 3600000, 3660000}

\* open orders of get_open_orders: with createdTime, with updatedTime only,
\* and with neither
OrderEntries ==
    { [createdTime |-> GuardNow - a, updatedTime |-> GuardNow] : a \in GuardAges }
    \cup { [updatedTime |-> GuardNow - a] : a \in GuardAges }
    \cup { [orderLinkId |-> "ENT"] }

WithIds(os) == [i \in 1..Len(os) |-> os[i] @@ [orderId |-> i]]

GuardInit ==
    /\ guardIn \in
         { [positions |-> ps, orders |-> WithIds(os), cap |-> cap,
            now_ms |-> GuardNow, ttl_minutes |-> ttl] :
           ps \in SeqsUpTo(PositionEntries, MaxGuardPositions),
           os \in SeqsUpTo(OrderEntries, MaxGuardOrders),
           cap \in 1..MaxCap, ttl \in {59, 60} }
    /\ guardOut = [phase |-> "in"]

\* can_open_for_symbol(api, category, symbol, cap) on the lists the api returns
GuardAdmit ==
    /\ guardOut.phase = "in"
    /\ guardOut' = [phase |-> "admitted",
                    can_open |-> can_open_for_symbol(guardIn.positions, guardIn.orders,
                                                     guardIn.cap)]
    /\ UNCHANGED <<guardIn, detVars, uniVars, botVars, apiVars>>

\* cancel_stale_orders(api, category, symbol, ttl_minutes) returning normally
GuardSweep ==
    /\ guardOut.phase = "admitted"
    /\ guardOut' = [phase |-> "swept", can_open |-> guardOut.can_open,
                    cancelled |-> [i \in 1..Len(cancel_stale_orders(guardIn.orders,
                                                     guardIn.now_ms, guardIn.ttl_minutes))
                                   |-> cancel_stale_orders(guardIn.orders, guardIn.now_ms,
                                                     guardIn.ttl_minutes)[i].orderId]]
    /\ UNCHANGED <<guardIn, detVars, uniVars, botVars, apiVars>>

InitGuard ==
    /\ GuardInit
    /\ detIn = Off /\ detOut = Off /\ uniIn = Off /\ uniOut = Off
    /\ BotOff
    /\ ApiOff

NextGuard == GuardAdmit \/ GuardSweep

SpecGuard == InitGuard /\ [][NextGuard]_vars

\* number of positions with non-zero size, and of open orders
GuardNonZeroCount ==
    Cardinality({i \in 1..Len(guardIn.positions) :
                    "size" \in DOMAIN guardIn.positions[i] /\ guardIn.positions[i].size # 0})
GuardOrderCount == Len(guardIn.orders)

\* C1: can_open_for_symbol returns false whenever non-zero positions + open
\* orders >= cap, and true only when that sum is below cap.
C1_AdmitIffSumBelowCap ==
    guardOut.phase \in {"admitted", "swept"} =>
        (guardOut.can_open <=> (GuardNonZeroCount + GuardOrderCount < guardIn.cap))

\* C3: the sweep cancels an open order iff now - createdTime >= ttl, with
\* updatedTime standing in when createdTime is absent.
GuardAge(o) ==
    IF "createdTime" \in DOMAIN o THEN guardIn.now_ms - o.createdTime
    ELSE guardIn.now_ms - o.updatedTime

C3_CancelIffStale ==
    guardOut.phase = "swept" =>
        \A i \in 1..Len(guardIn.orders) :
            LET o == guardIn.orders[i]
            IN ("createdTime" \in DOMAIN o \/ "updatedTime" \in DOMAIN o) =>
                 ((o.orderId \in Range(guardOut.cancelled))
                    <=> (GuardAge(o) >= guardIn.ttl_minutes * 60000))

C3_Witness ==
    /\ guardOut.phase = "swept"
    /\ guardIn.ttl_minutes = 60
    /\ Len(guardIn.orders) = 2
    /\ "createdTime" \in DOMAIN guardIn.orders[1]
    /\ guardIn.orders[1].createdTime = guardIn.now_ms - 3600000
    /\ "createdTime" \in DOMAIN guardIn.orders[2]
    /\ guardIn.orders[2].createdTime = guardIn.now_ms - 3540000
    /\ guardOut.cancelled = <<1>>

\* ------------------------------------------------------------------------
\* The universe selector called on its own
\* ------------------------------------------------------------------------
QUOTE == <<"U", "T">>

TickerNames == { <<"B", "U", "T">>, <<"E", "U", "T">>, <<"U", "T", "B">>, <<"T">> }
TickerTurnovers == {"5", "7", "7.0", "n/a"}
TickerRows == { [symbol |-> nm, turnover24h |-> t] : nm \in TickerNames, t \in TickerTurnovers }

UniInit ==
    /\ uniIn \in { [rows |-> rows, quote |-> QUOTE, top_n |-> top_n] :
                   rows \in { r \in SeqsUpTo(TickerRows, MaxTickers) :
                               \A i, j \in 1..Len(r) : i # j => r[i].symbol # r[j].symbol },
                   top_n \in 0..MaxTopN }
    /\ uniOut = [phase |-> "in"]

\* get_universe(api, category, quote, top_n, "TURNOVER", ...) on the tickers
UniSelect ==
    /\ uniOut.phase = "in"
    /\ \E res \in get_universe(uniIn.rows, uniIn.quote, uniIn.top_n) :
          uniOut' = [phase |-> "selected", rows |-> res,
                     symbols |-> [i \in 1..Len(res) |-> res[i].symbol]]
    /\ UNCHANGED <<uniIn, guardVars, detVars, botVars, apiVars>>

InitUniverse ==
    /\ UniInit
    /\ guardIn = Off /\ guardOut = Off /\ detIn = Off /\ detOut = Off
    /\ BotOff
    /\ ApiOff

NextUniverse == UniSelect

SpecUniverse == InitUniverse /\ [][NextUniverse]_vars

UniSizeAndSuffix ==
    /\ Len(uniOut.symbols) <= uniIn.top_n
    /\ \A i \in 1..Len(uniOut.symbols) :
          LET nm == uniOut.symbols[i]
          IN Len(nm) >= 2 /\ nm[Len(nm) - 1] = "U" /\ nm[Len(nm)] = "T"

\* C10 as stated: at most top_n symbols, all ending with the quote suffix,
\* strictly sorted by descending 24h turnover.
C10_StrictlyDescending ==
    uniOut.phase = "selected" =>
        /\ UniSizeAndSuffix
        /\ \A i \in 1..(Len(uniOut.rows) - 1) :
              /\ ~uniOut.rows[i].turnover24h.nan
              /\ ~uniOut.rows[i + 1].turnover24h.nan
              /\ uniOut.rows[i].turnover24h.v > uniOut.rows[i + 1].turnover24h.v

\* C10 amended: at most top_n symbols, all ending with the quote suffix, in
\* non-increasing order of turnover, symbols of unparsable turnover last.
C10_NonIncreasingNaNLast ==
    uniOut.phase = "selected" =>
        /\ UniSizeAndSuffix
        /\ \A i \in 1..(Len(uniOut.rows) - 1) :
              \/ uniOut.rows[i + 1].turnover24h.nan
              \/ /\ ~uniOut.rows[i].turnover24h.nan
                 /\ uniOut.rows[i].turnover24h.v >= uniOut.rows[i + 1].turnover24h.v

C10_Witness ==
    /\ uniOut.phase = "selected"
    /\ Len(uniIn.rows) = 3
    /\ Len(uniOut.rows) = 2
    /\ uniOut.rows[1].turnover24h = Num(7)
    /\ uniOut.rows[2].turnover24h = Num(7)
    /\ uniOut.rows[1].symbol # uniOut.rows[2].symbol
    /\ \E i \in 1..3 : uniIn.rows[i].turnover24h = "n/a"

\* ------------------------------------------------------------------------
\* The exchange client: bybit_api.BybitAPI
\* ------------------------------------------------------------------------
\* Python's `x or ""` on an optional string; None is the empty sequence, a
\* given string s is <<s>>
PyNone == <<>>
OrEmpty(x) == IF x = PyNone THEN "" ELSE x[1]

\* bybit_api.py lines 9-12: the constructor keeps key and secret
BybitAPI(api_key, api_secret) == [key |-> OrEmpty(api_key), secret |-> OrEmpty(api_secret)]

\* a payload is a dict: a sequence of <<name, value>> pairs in insertion
\* order, names unique
Names(payload) == { payload[i][1] : i \in 1..Len(payload) }
ValueOf(payload, k) == payload[CHOOSE i \in 1..Len(payload) : payload[i][1] = k][2]

\* the names used by the client's payloads, in Python string order
KeyOrder ==
    << "buyLeverage", "category", "mode", "orderId", "orderLinkId", "orderType",
       "positionIdx", "price", "qty", "reduceOnly", "sellLeverage", "side", "slTriggerBy",
       "stopLoss", "symbol", "takeProfit", "timeInForce", "tpTriggerBy" >>

\* sorted(payload.items())
SortedItems(payload) ==
    LET ks == SelectSeq(KeyOrder, LAMBDA k : k \in Names(payload))
    IN [i \in 1..Len(ks) |-> <<ks[i], ValueOf(payload, ks[i])>>]

\* urllib.parse.urlencode of a list of pairs whose names and values need no
\* escaping: name=value joined by &
RECURSIVE urlencode(_)
urlencode(items) ==
    IF items = <<>> THEN ""
    ELSE items[1][1] \o "=" \o items[1][2] \o
         (IF Len(items) = 1 THEN "" ELSE "&" \o urlencode(Tail(items)))

\* hmac.new(secret, msg, sha256).hexdigest(), kept symbolic
HmacSha256(secret, msg) == [hmac_sha256_of |-> msg, keyed_by |-> secret]

\* bybit_api.py lines 80-92
_auth_headers(self, payload, ts) ==
    LET recv_window == "5000"
        body_str == IF payload # <<>> THEN urlencode(SortedItems(payload)) ELSE ""
        to_sign == ts \o self.key \o recv_window \o body_str
    IN [api_key |-> self.key, sign |-> HmacSha256(self.secret, to_sign),
        timestamp |-> ts, recv_window |-> recv_window, content_type |-> "application/json"]

\* bybit_api.py lines 66-71, up to the request sent
_get(self, path, params, auth, ts) ==
    [verb |-> "GET", path |-> path, payload |-> params,
     headers |-> IF auth THEN _auth_headers(self, params, ts) ELSE [content_type |-> "none"]]

\* bybit_api.py lines 73-78, up to the request sent
_post(self, path, body, auth, ts) ==
    [verb |-> "POST", path |-> path, payload |-> body,
     headers |-> IF auth THEN _auth_headers(self, body, ts)
                 ELSE [content_type |-> "application/json"]]

\* `if symbol: params["symbol"] = symbol`
WithSymbol(params, symbol) == IF symbol # "" THEN Append(params, <<"symbol", symbol>>) ELSE params

PublicCalls == {"get_tickers", "get_kline"}
PrivateCalls == {"set_position_mode", "set_leverage", "place_order", "cancel_order",
                 "get_open_orders", "get_positions", "set_sl_tp"}

\* the entry order of trader.py lines 28-38
EntryOrder(symbol) ==
    << <<"category", "linear">>, <<"symbol", symbol>>, <<"side", "Buy">>,
       <<"orderType", "Limit">>, <<"qty", "1">>, <<"timeInForce", "GTC">>,
       <<"orderLinkId", "ENT_1">>, <<"price", "40">> >>

\* bybit_api.py lines 15-63: the request each method of the client sends
Request(self, call, symbol, ts) ==
    LET cat == <<"category", "linear">>
    IN CASE call = "get_tickers" ->
              _get(self, "/v5/market/tickers", WithSymbol(<<cat>>, symbol), FALSE, ts)
         [] call = "get_kline" ->
              _get(self, "/v5/market/kline",
                   <<cat, <<"symbol", symbol>>, <<"interval", "60">>, <<"limit", "200">> >>,
                   FALSE, ts)
         [] call = "set_position_mode" ->
              _post(self, "/v5/position/switch-mode", <<cat, <<"mode", "0">> >>, TRUE, ts)
         [] call = "set_leverage" ->
              _post(self, "/v5/position/set-leverage",
                    <<cat, <<"symbol", symbol>>, <<"buyLeverage", "10">>,
                      <<"sellLeverage", "10">> >>, TRUE, ts)
         [] call = "place_order" ->
              _post(self, "/v5/order/create", EntryOrder(symbol), TRUE, ts)
         [] call = "cancel_order" ->
              _post(self, "/v5/order/cancel",
                    <<cat, <<"symbol", symbol>>, <<"orderId", "1">> >>, TRUE, ts)
         [] call = "get_open_orders" ->
              _get(self, "/v5/order/realtime", WithSymbol(<<cat>>, symbol), TRUE, ts)
         [] call = "get_positions" ->
              _get(self, "/v5/position/list", WithSymbol(<<cat>>, symbol), TRUE, ts)
         [] call = "set_sl_tp" ->
              _post(self, "/v5/position/trading-stop",
                    <<cat, <<"symbol", symbol>>, <<"positionIdx", "0">>,
                      <<"takeProfit", "44">>, <<"stopLoss", "38">>,
                      <<"tpTriggerBy", "LastPrice">>, <<"slTriggerBy", "LastPrice">>,
                      <<"reduceOnly", "true">> >>, TRUE, ts)

ApiInit ==
    /\ apiIn \in [api_key : {PyNone, <<"">>, <<"K">>}, api_secret : {PyNone, <<"">>, <<"S">>},
                  call : PublicCalls \cup PrivateCalls,
                  symbol : {"", "BTCUSDT"}, ts : {"1", "2"}]
    /\ apiOut = [phase |-> "in"]

\* the responses of the exchange: an HTTP error status, or a JSON body with
\* retCode zero or not
Responses == { [status |-> 200, retCode |-> 0], [status |-> 200, retCode |-> 10003],
               [status |-> 401, retCode |-> 10003] }

\* one call of a client method: the request is built and sent, then
\* raise_for_status raises on an error status, else the JSON body is returned
ApiCall ==
    /\ apiOut.phase = "in"
    /\ LET self == BybitAPI(apiIn.api_key, apiIn.api_secret)
           req == Request(self, apiIn.call, apiIn.symbol, apiIn.ts)
       IN \E r \in Responses :
             apiOut' = [phase |-> "done", self |-> self, sent |-> req,
                        outcome |-> IF r.status >= 400 THEN "HTTPError" ELSE "returned",
                        retCode |-> r.retCode]
    /\ UNCHANGED <<apiIn, guardVars, detVars, uniVars, botVars>>

InitApi ==
    /\ ApiInit
    /\ guardIn = Off /\ guardOut = Off /\ detIn = Off /\ detOut = Off
    /\ uniIn = Off /\ uniOut = Off
    /\ BotOff

NextApi == ApiCall

SpecApi == InitApi /\ [][NextApi]_vars

\* C15: with the API key or the secret absent, a private call of the client
\* fails with an auth error and sends nothing: no private request is signed
\* and sent with an empty key or secret.
C15_NoPrivateRequestWithoutCredentials ==
    (/\ apiOut.phase = "done"
     /\ apiIn.call \in PrivateCalls
     /\ apiOut.self.key = "" \/ apiOut.self.secret = "")
        => apiOut.outcome = "AuthError"

\* ------------------------------------------------------------------------
\* The scan cycle: main.main() and the retry-wrapped main.run_once()
\* ------------------------------------------------------------------------
BUT == <<"B", "U", "T">>
EUT == <<"E", "U", "T">>
TradedSyms == {BUT, EUT}

\* what get_tickers returns while the bot runs
MainTickers ==
    << [symbol |-> BUT, turnover24h |-> "7"],
       [symbol |-> <<"U", "T", "B">>, turnover24h |-> "7.0"],
       [symbol |-> EUT, turnover24h |-> "5"] >>

BullHistory == [n |-> 250, ind |-> [ema50 |-> 42, ema200 |-> 41, rsi |-> 60, hist |-> 10]]
BearHistory == [n |-> 250, ind |-> [ema50 |-> 41, ema200 |-> 42, rsi |-> 40, hist |-> -10]]

\* what get_ohlcv may return for a (symbol, timeframe) while the bot runs:
\* no candles, a window without pattern, or a pattern (rising market on the
\* first symbol, falling market on the second)
KlineResponses(s) ==
    { MkSeries([n |-> 0, ind |-> BullHistory.ind], <<>>, 0, <<0, 0, 0>>),
      MkSeries(BullHistory, <<BullStrong, BearStrong, BullStrong, BearStrong>>, 1, <<16, 1, 1>>),
      IF s = BUT
      THEN MkSeries(BullHistory, <<BullStrong, BullStrong, BullStrong, BullStrong>>, 1, <<16, 1, 1>>)
      ELSE MkSeries(BearHistory, <<BearStrong, BearStrong, BearStrong, BearStrong>>, 1, <<16, 1, 1>>) }

\* tenacity: stop_after_attempt(3), wait_fixed(2)
MaxAttemptsMut == 3 + 1
MaxAttempts == 3
RetryWaitMs == 2000

\* main.load_cfg() defaults, with a stale-order TTL of one scan interval
BaseCfg ==
    DefaultThresholds @@ Flags(TRUE, TRUE, TRUE, TRUE, TRUE, TRUE) @@
    [QUOTE |-> QUOTE, TOP_N |-> 2, SCAN_TF_LIST |-> <<30, 60>>,
     SEND_STARTUP_TEST |-> TRUE, INTERVAL_SECONDS |-> 600, ORDER_TTL_MINUTES |-> 10]

\* the open orders the exchange holds when the bot starts: none, or an entry
\* order an earlier run of the bot has left on the first symbol
OrdersAtStart ==
    { [s \in TradedSyms |-> <<>>],
      [s \in TradedSyms |->
          IF s = BUT
          THEN <<[orderId |-> 1, side |-> "Buy", createdTime |-> 0, updatedTime |-> 0]>>
          ELSE <<>>] }

tf_list == cfg.SCAN_TF_LIST
sym == symbols[si]

Init ==
    /\ guardIn = Off /\ guardOut = Off /\ detIn = Off /\ detOut = Off
    /\ uniIn = Off /\ uniOut = Off
    /\ ApiOff
    /\ cfg \in { BaseCfg @@ [MAX_OPEN_PER_SYMBOL |-> cap, AUTO_TRADE |-> auto, RUN_MODE |-> mode] :
                 cap \in 1..MaxCap, auto \in BOOLEAN, mode \in {"LOOP", "ONCE"} }
    /\ pc = "main" /\ cycle = 0 /\ attempt = 0 /\ now_ms = 0
    /\ positions = [s \in TradedSyms |-> <<[size |-> 0]>>]
    /\ orders \in OrdersAtStart
    /\ nextId = 1 + Len(orders[BUT]) + Len(orders[EUT])
    /\ symbols = <<>> /\ si = 0 /\ tfi = 0 /\ sig = None /\ order_id = 0
    /\ found = <<>> /\ calls = <<>>
    /\ rows_for_db = <<>> /\ db = "none" /\ count = -1
    /\ raised = "none" /\ sent = <<>>

pureVars == <<guardIn, guardOut, detIn, detOut, uniIn, uniOut, apiIn, apiOut>>

\* the locals of a run_once call that has ended
FrameGone ==
    /\ symbols' = <<>> /\ si' = 0 /\ tfi' = 0 /\ sig' = None /\ order_id' = 0
    /\ found' = <<>> /\ calls' = <<>>
    /\ rows_for_db' = <<>> /\ db' = "none"

ResetLocals ==
    /\ FrameGone
    /\ count' = -1

\* main.py line 222: main() calls run_once(cfg); first attempt
StartCycle ==
    /\ pc = "main"
    /\ cycle < MaxCycles
    /\ cycle' = cycle + 1
    /\ attempt' = 1
    /\ pc' = "startup"
    /\ ResetLocals
    /\ raised' = "none" /\ sent' = <<>>
    /\ UNCHANGED <<cfg, now_ms, exchVars, pureVars>>

\* an exception leaves run_once: tenacity waits and calls it again, or gives
\* up after the last attempt and the RetryError leaves main()
Raise ==
    /\ IF attempt < MaxAttempts
       THEN /\ attempt' = attempt + 1
            /\ now_ms' = now_ms + RetryWaitMs
            /\ pc' = "startup"
       ELSE /\ attempt' = attempt
            /\ now_ms' = now_ms
            /\ pc' = "crashed"
    /\ ResetLocals
    /\ UNCHANGED <<cfg, cycle, pureVars, sent>>

\* telegram_utils.py lines 10-21: send returns, with a message id (r.ok) or
\* with None; every caller in run_once discards the returned value, so both
\* outcomes are the same step of run_once: the message has been sent
TgSend(log, msg) == Append(log, msg)

Msg(kind, s) == [kind |-> kind, sym |-> s]

\* main.py lines 144-148: the attempt begins, clients built, startup message
\* sent
Startup ==
    /\ pc = "startup"
    /\ pc' = "universe"
    /\ raised' = "none"
    /\ sent' = IF cfg.SEND_STARTUP_TEST THEN TgSend(<<>>, Msg("startup", <<>>)) ELSE <<>>
    /\ UNCHANGED <<cfg, cycle, attempt, now_ms, exchVars, localVars, pureVars, endVars>>

\* first step of the loop body of main.py line 159
SymEntryMut == "scan"
SymEntry == "sweep"

\* main.py lines 150-157: universe selected, accumulators initialised
Universe ==
    /\ pc = "universe"
    /\ \E res \in get_universe(MainTickers, cfg.QUOTE, cfg.TOP_N) :
          /\ symbols' = [i \in 1..Len(res) |-> res[i].symbol]
          /\ pc' = IF Len(res) = 0 THEN "after_loop" ELSE SymEntry
    /\ si' = 1 /\ tfi' = 1 /\ sig' = None /\ order_id' = 0
    /\ found' = <<>> /\ calls' = <<>>
    /\ UNCHANGED <<cfg, cycle, attempt, now_ms, exchVars, pureVars, endVars, msgVars>>

\* the loop of main.py line 159 moves to the next symbol, or ends
NextSymbol(newFound) ==
    /\ found' = newFound
    /\ si' = si + 1
    /\ tfi' = 1 /\ sig' = None /\ order_id' = 0 /\ calls' = <<>>
    /\ pc' = IF si + 1 > Len(symbols) THEN "after_loop" ELSE SymEntry
    /\ UNCHANGED symbols

RemoveIds(os, ids) == SelectSeq(os, LAMBDA o : o.orderId \notin ids)

CancelEvents(stale) == [i \in 1..Len(stale) |-> [call |-> "cancel_order", orderId |-> stale[i].orderId]]

\* main.py line 160: cancel_stale_orders returns normally
Sweep ==
    /\ pc = "sweep"
    /\ LET stale == cancel_stale_orders(orders[sym], now_ms, cfg.ORDER_TTL_MINUTES)
       IN /\ orders' = [orders EXCEPT ![sym] = RemoveIds(@, {stale[i].orderId : i \in 1..Len(stale)})]
          /\ calls' = calls \o <<[call |-> "get_open_orders"]>> \o CancelEvents(stale)
                            \o <<[call |-> "sweep_done"]>>
    /\ pc' = "scan"
    /\ UNCHANGED <<cfg, cycle, attempt, now_ms, positions, nextId, symbols, si, tfi, sig,
                   order_id, found, pureVars, endVars, msgVars>>

\* main.py line 160: get_open_orders raises, or a cancel_order raises after
\* k stale orders were cancelled
SweepThrow ==
    /\ pc = "sweep"
    /\ LET stale == cancel_stale_orders(orders[sym], now_ms, cfg.ORDER_TTL_MINUTES)
       IN \E k \in 0..Len(stale) :
             /\ k < Len(stale) \/ k = 0
             /\ orders' = [orders EXCEPT ![sym] = RemoveIds(@, {stale[i].orderId : i \in 1..k})]
             /\ raised' \in (IF k = 0 THEN {"get_open_orders"} ELSE {}) \cup
                            (IF k < Len(stale) THEN {"cancel_order"} ELSE {})
    /\ Raise
    /\ UNCHANGED <<positions, nextId>>

\* main.py line 165: if sig: break
ScanBreaksMut(s) == FALSE
ScanBreaks(s) == s # None

\* main.py lines 163-165: one pass of the timeframe loop
Fetch ==
    /\ pc = "scan"
    /\ \E df \in KlineResponses(sym) :
          LET r == process_symbol(df, cfg, sym, tf_list[tfi])
          IN /\ sig' = r
             /\ calls' = Append(calls, [call |-> "get_kline", tf |-> tf_list[tfi], side |-> r.side])
             /\ IF ScanBreaks(r) \/ tfi = Len(tf_list)
                THEN pc' = "scanned" /\ tfi' = tfi
                ELSE pc' = "scan" /\ tfi' = tfi + 1
    /\ UNCHANGED <<cfg, cycle, attempt, now_ms, exchVars, symbols, si, order_id, found, pureVars,
                   endVars, msgVars>>

\* main.py lines 166-167: if not sig: continue
AfterScan ==
    /\ pc = "scanned"
    /\ IF sig = None
       THEN NextSymbol(found)
       ELSE /\ pc' = "alert"
            /\ UNCHANGED localVars
    /\ UNCHANGED <<cfg, cycle, attempt, now_ms, exchVars, pureVars, endVars, msgVars>>

\* main.py line 175: `cfg["AUTO_TRADE"] and can_open_for_symbol(...)` calls
\* the admission check only with AUTO_TRADE set
AdmissionReachedMut(auto_trade) == TRUE
AdmissionReached(auto_trade) == auto_trade

\* main.py lines 169-175: the signal alert, then AUTO_TRADE short-circuits
\* the admission check
Alert ==
    /\ pc = "alert"
    /\ calls' = Append(calls, [call |-> "tg.send", kind |-> "signal"])
    /\ sent' = TgSend(sent, Msg("signal", sym))
    /\ pc' = IF AdmissionReached(cfg.AUTO_TRADE) THEN "admit_pos" ELSE "append"
    /\ UNCHANGED <<cfg, cycle, attempt, now_ms, exchVars, symbols, si, tfi, sig, order_id,
                   found, pureVars, endVars, raised>>

\* trader.py lines 10-14: positions read and compared to the cap
AdmitPositions ==
    /\ pc = "admit_pos"
    /\ IF PositionsBlock(positions[sym], cfg.MAX_OPEN_PER_SYMBOL)
       THEN /\ calls' = calls \o <<[call |-> "get_positions"],
                                   [call |-> "can_open_for_symbol", res |-> FALSE]>>
            /\ pc' = "append"
       ELSE /\ calls' = Append(calls, [call |-> "get_positions"])
            /\ pc' = "admit_ord"
    /\ UNCHANGED <<cfg, cycle, attempt, now_ms, exchVars, symbols, si, tfi, sig, order_id,
                   found, pureVars, endVars, msgVars>>

\* trader.py lines 15-19: open orders read and compared to the cap
AdmitOrders ==
    /\ pc = "admit_ord"
    /\ IF OrdersBlock(orders[sym], cfg.MAX_OPEN_PER_SYMBOL)
       THEN /\ calls' = calls \o <<[call |-> "get_open_orders"],
                                   [call |-> "can_open_for_symbol", res |-> FALSE]>>
            /\ pc' = "append"
       ELSE /\ calls' = calls \o <<[call |-> "get_open_orders"],
                                   [call |-> "can_open_for_symbol", res |-> TRUE]>>
            /\ pc' = "leverage"
    /\ UNCHANGED <<cfg, cycle, attempt, now_ms, exchVars, symbols, si, tfi, sig, order_id,
                   found, pureVars, endVars, msgVars>>

\* trader.py line 26: api.set_leverage
SetLeverage ==
    /\ pc = "leverage"
    /\ calls' = Append(calls, [call |-> "set_leverage"])
    /\ pc' = "place"
    /\ UNCHANGED <<cfg, cycle, attempt, now_ms, exchVars, symbols, si, tfi, sig, order_id,
                   found, pureVars, endVars, msgVars>>

\* main.py line 181: if order_id
AttachAllowedMut(oid) == TRUE
AttachAllowed(oid) == oid # 0

\* trader.py lines 27-41: api.place_order; the response carries an orderId
\* (the order is open on the exchange) or none (order_id is None, here 0)
PlaceOrder ==
    /\ pc = "place"
    /\ \/ /\ nextId <= MaxOrderIds
          /\ orders' = [orders EXCEPT ![sym] =
                Append(@, [orderId |-> nextId,
                           side |-> IF sig.side = "LONG" THEN "Buy" ELSE "Sell",
                           createdTime |-> now_ms, updatedTime |-> now_ms])]
          /\ order_id' = nextId
          /\ nextId' = nextId + 1
       \/ /\ order_id' = 0
          /\ UNCHANGED <<orders, nextId>>
    /\ calls' = Append(calls, [call |-> "place_order", orderId |-> order_id'])
    /\ pc' = IF AttachAllowed(order_id') THEN "placed_msg" ELSE "append"
    /\ UNCHANGED <<cfg, cycle, attempt, now_ms, positions, symbols, si, tfi, sig, found, pureVars,
                   endVars, msgVars>>

\* main.py line 182: the placement message
PlacedMsg ==
    /\ pc = "placed_msg"
    /\ calls' = Append(calls, [call |-> "tg.send", kind |-> "placed"])
    /\ sent' = TgSend(sent, Msg("placed", sym))
    /\ pc' = "attach"
    /\ UNCHANGED <<cfg, cycle, attempt, now_ms, exchVars, symbols, si, tfi, sig, order_id,
                   found, pureVars, endVars, raised>>

\* main.py line 183 / trader.py lines 43-47: attach_sltp
Attach ==
    /\ pc = "attach"
    /\ calls' = Append(calls, [call |-> "set_sl_tp"])
    /\ pc' = "append"
    /\ UNCHANGED <<cfg, cycle, attempt, now_ms, exchVars, symbols, si, tfi, sig, order_id,
                   found, pureVars, endVars, msgVars>>

\* main.py line 185: found.append(sig), whatever the order id is
FoundAfterMut(f, s, oid) == IF oid # 0 THEN Append(f, s) ELSE f
FoundAfter(f, s, oid) == Append(f, s)

\* main.py line 185: found.append(sig), next symbol
AppendFound ==
    /\ pc = "append"
    /\ NextSymbol(FoundAfter(found, sig, order_id))
    /\ UNCHANGED <<cfg, cycle, attempt, now_ms, exchVars, pureVars, endVars, msgVars>>

\* main.py lines 187-189: no signal found, message sent, return 0
NoSignals ==
    /\ pc = "after_loop"
    /\ found = <<>>
    /\ sent' = TgSend(sent, Msg("no_signals", <<>>))
    /\ count' = 0
    /\ attempt' = 0
    /\ pc' = "returned"
    /\ FrameGone
    /\ UNCHANGED <<cfg, cycle, now_ms, exchVars, pureVars, raised>>

\* main.py lines 191-207: cards and rows built, csv log written
CsvLog ==
    /\ pc = "after_loop"
    /\ found # <<>>
    /\ rows_for_db' = [i \in 1..Len(found) |->
                          [symbol |-> found[i].sym, side |-> found[i].side,
                           timeframe |-> found[i].timeframe]]
    /\ pc' = "db"
    /\ UNCHANGED <<cfg, cycle, attempt, now_ms, exchVars, localVars, pureVars, db, count,
                   msgVars>>

\* main.py lines 212-213: what the except clause does with an exception of
\* insert_signals
DbHandlerMut == "raise"
DbHandler == "log"

\* main.py lines 209-213: insert_signals returns the number of rows, or
\* raises into the except clause
DbInsert ==
    /\ pc = "db"
    /\ \E outcome \in {"inserted", "failed"} :
          IF outcome = "failed" /\ DbHandler # "log"
          THEN /\ raised' = "insert_signals"
               /\ Raise
          ELSE /\ db' = outcome
               /\ pc' = "summary"
               /\ UNCHANGED <<attempt, now_ms, localVars, rows_for_db, count, msgVars>>
    /\ UNCHANGED <<cfg, cycle, exchVars, pureVars>>

\* main.py lines 215-216: summary sent, return len(found)
Summary ==
    /\ pc = "summary"
    /\ sent' = TgSend(sent, Msg("summary", <<>>))
    /\ count' = Len(found)
    /\ attempt' = 0
    /\ pc' = "returned"
    /\ FrameGone
    /\ UNCHANGED <<cfg, cycle, now_ms, exchVars, pureVars, raised>>

\* main.py lines 223-225: back in main(), the count logged and not read
\* again; RUN_MODE ONCE leaves the loop
Returned ==
    /\ pc = "returned"
    /\ pc' = IF cfg.RUN_MODE = "ONCE" THEN "exit" ELSE "sleeping"
    /\ count' = -1
    /\ sent' = <<>>
    /\ UNCHANGED <<cfg, cycle, attempt, now_ms, exchVars, localVars, pureVars, rows_for_db, db,
                   raised>>

\* main.py line 226: time.sleep(INTERVAL_SECONDS)
Sleep ==
    /\ pc = "sleeping"
    /\ now_ms' = now_ms + cfg.INTERVAL_SECONDS * 1000
    /\ pc' = "main"
    /\ UNCHANGED <<cfg, cycle, attempt, exchVars, localVars, pureVars, endVars, msgVars>>

\* positions of run_once at which a collaborator call can raise (requests
\* transport error, raise_for_status, file error) and leave run_once
ThrowPcs == {"startup", "universe", "scan", "alert", "admit_pos", "admit_ord", "leverage",
             "place", "placed_msg", "attach", "after_loop", "summary"}

\* the call run_once is in at each of these positions
ThrowSource(p, f) ==
    CASE p \in {"startup", "alert", "placed_msg", "summary"} -> "tg.send"
      [] p = "after_loop" -> IF f = <<>> THEN "tg.send" ELSE "_csv_log_signals"
      [] p = "universe" -> "get_tickers"
      [] p = "scan" -> "get_kline"
      [] p = "admit_pos" -> "get_positions"
      [] p = "admit_ord" -> "get_open_orders"
      [] p = "leverage" -> "set_leverage"
      [] p = "place" -> "place_order"
      [] p = "attach" -> "set_sl_tp"

Throw ==
    /\ pc \in ThrowPcs
    /\ pc = "startup" => cfg.SEND_STARTUP_TEST
    /\ raised' = ThrowSource(pc, found)
    /\ Raise
    /\ UNCHANGED exchVars

\* exchange: an open order fills into the one-way position of its symbol
Fill ==
    /\ pc \notin {"off", "exit", "crashed"}
    /\ \E s \in TradedSyms : \E i \in 1..Len(orders[s]) :
          LET o == orders[s][i]
          IN /\ orders' = [orders EXCEPT ![s] = RemoveIds(@, {o.orderId})]
             /\ positions' = [positions EXCEPT ![s] =
                   <<[size |-> @[1].size + (IF o.side = "Buy" THEN 1 ELSE -1)]>>]
    /\ UNCHANGED <<cfg, pc, cycle, attempt, now_ms, nextId, localVars, pureVars, endVars, msgVars>>

Next ==
    \/ StartCycle \/ Startup \/ Universe \/ Sweep \/ SweepThrow \/ Fetch \/ AfterScan
    \/ Alert \/ AdmitPositions \/ AdmitOrders \/ SetLeverage \/ PlaceOrder \/ PlacedMsg
    \/ Attach \/ AppendFound \/ NoSignals \/ CsvLog \/ DbInsert \/ Summary \/ Returned
    \/ Sleep \/ Throw \/ Fill

Spec == Init /\ [][Next]_vars

\* ------------------------------------------------------------------------
\* Claims about the scan cycle
\* ------------------------------------------------------------------------
HasCall(name) == \E i \in 1..Len(calls) : calls[i].call = name

\* C2: with the bot the only creator of orders and orders filling at any
\* time, non-zero positions + open orders of a symbol never exceed
\* MAX_OPEN_PER_SYMBOL.
C2_ExposureWithinCap ==
    \A s \in DOMAIN orders :
        Cardinality({i \in 1..Len(positions[s]) : positions[s][i].size # 0}) + Len(orders[s])
            <= cfg.MAX_OPEN_PER_SYMBOL

\* the candle fetches made for the current symbol, in call order
Klines == SelectSeq(calls, LAMBDA e : e.call = "get_kline")

PastScanPcs == {"alert", "admit_pos", "admit_ord", "leverage", "place", "placed_msg",
                "attach", "append"}

\* C4: the scan of a symbol returns the signal of the first timeframe of
\* SCAN_TF_LIST that yields one, fetches no timeframe after it, and yields
\* none only when every timeframe yielded none.
C4_FirstMatchWins ==
    pc \in {"scan", "scanned"} \cup PastScanPcs =>
        LET k == Klines
            n == Len(k)
        IN /\ n <= Len(tf_list)
           /\ \A i \in 1..n : k[i].tf = tf_list[i]
           /\ \A i \in 1..(n - 1) : k[i].side = "None"
           /\ pc \in PastScanPcs => sig # None
           /\ pc \in {"scanned"} \cup PastScanPcs =>
                 /\ n >= 1
                 /\ sig.side = k[n].side
                 /\ sig # None => (sig.timeframe = k[n].tf /\ sig.sym = sym)
                 /\ sig = None => n = Len(tf_list)

C4_Witness ==
    /\ pc = "alert"
    /\ Len(Klines) = 2
    /\ Klines[1].side = "None"
    /\ sig.timeframe = 60

SymbolWork == {"get_kline", "get_positions", "can_open_for_symbol", "set_leverage",
               "place_order", "set_sl_tp"}

\* C5: for every symbol of a cycle the staleness sweep has completed before
\* the first candle fetch, admission check or order placement of that symbol.
C5_SweepBeforeDetection ==
    /\ \A i \in 1..Len(calls) :
          calls[i].call \in SymbolWork => \E j \in 1..(i - 1) : calls[j].call = "sweep_done"
    /\ pc \in {"scan", "scanned"} \cup PastScanPcs => HasCall("sweep_done")

C5_Witness ==
    /\ pc = "place"
    /\ si = 2
    /\ HasCall("cancel_order")
    /\ HasCall("get_kline")

\* C6: an order is placed only after the admission check returned true, the
\* protective stop is attached only after the placement returned an order
\* id; no order after a denial, no protective stop without an order id.
C6_TradingStepsSequential ==
    /\ \A i \in 1..Len(calls) :
          calls[i].call \in {"set_leverage", "place_order"} =>
              \E j \in 1..(i - 1) : calls[j].call = "can_open_for_symbol" /\ calls[j].res
    /\ \A i \in 1..Len(calls) :
          calls[i].call = "set_sl_tp" =>
              \E j \in 1..(i - 1) : calls[j].call = "place_order" /\ calls[j].orderId # 0
    /\ (\E j \in 1..Len(calls) : calls[j].call = "can_open_for_symbol" /\ ~calls[j].res)
          => ~HasCall("place_order")
    /\ (\E j \in 1..Len(calls) : calls[j].call = "place_order" /\ calls[j].orderId = 0)
          => ~HasCall("set_sl_tp")

C6_Witness ==
    /\ pc = "append"
    /\ HasCall("set_sl_tp")
    /\ order_id # 0

\* ------------------------------------------------------------------------
\* Claims about failures inside a cycle
\* ------------------------------------------------------------------------
\* C11: a failing notifier send never makes the cycle attempt fail or be
\* retried: the exception that leaves run_once never comes from tg.send.
C11_NotifierNeverFailsAttempt == raised # "tg.send"

\* C12: an exception of insert_signals is caught inside the cycle: it never
\* leaves run_once (no abort, no retry), run_once goes on with the same
\* attempt to the summary send, and when that send returns the summary is
\* sent and run_once returns the number of found signals.
C12_PersistFailureCaught ==
    /\ [](/\ raised # "insert_signals"
          /\ db = "failed" =>
                /\ pc = "summary"
                /\ found # <<>>
                /\ Len(rows_for_db) = Len(found))
    /\ [][/\ (pc = "db" /\ pc' # "db") =>
                /\ db' \in {"inserted", "failed"}
                /\ pc' = "summary"
                /\ attempt' = attempt /\ found' = found /\ sent' = sent
          /\ (db = "failed" /\ pc' # "summary" /\ raised' = "none") =>
                /\ pc' = "returned"
                /\ count' = Len(found)
                /\ sent' = Append(sent, Msg("summary", <<>>))
         ]_vars

C12_Witness ==
    /\ db = "failed"
    /\ pc = "summary"
    /\ Len(found) = 2

\* a step in which an exception leaves run_once
ThrowStep ==
    /\ pc \notin {"main", "crashed"}
    /\ attempt' = attempt + 1 \/ pc' = "crashed"

\* the orders the running attempt has placed and that are still open
PlacedThisAttempt(s) == SelectSeq(orders[s], LAMBDA o : o.createdTime = now_ms)

\* C13: when a step of a cycle attempt throws, the cycle is run again from
\* its start, before the universe selection and with empty accumulators, for
\* at most 3 attempts in total; nothing the failed attempt did is rolled
\* back: the orders it placed stay open, positions stay, and the messages it
\* sent stay sent when the next attempt starts.
C13_RetryFromStartKeepsEffects ==
    /\ [](/\ attempt \in 0..3
          /\ raised # "none" =>
                /\ pc \in {"startup", "crashed"}
                /\ pc = "startup" => attempt \in 2..3
                /\ pc = "crashed" => attempt = 3
                /\ symbols = <<>> /\ found = <<>> /\ si = 0)
    /\ [][ThrowStep =>
             /\ raised' # "none"
             /\ IF attempt < 3
                THEN attempt' = attempt + 1 /\ pc' = "startup"
                ELSE attempt' = attempt /\ pc' = "crashed"
             /\ cycle' = cycle
             /\ sent' = sent
             /\ positions' = positions
             /\ nextId' = nextId
             /\ \A s \in TradedSyms : \A i \in 1..Len(PlacedThisAttempt(s)) :
                   \E j \in 1..Len(orders'[s]) : orders'[s][j] = PlacedThisAttempt(s)[i]
          ]_vars

C13_Witness ==
    /\ pc = "startup"
    /\ attempt = 2
    /\ raised = "set_sl_tp"
    /\ \E i \in 1..Len(sent) : sent[i] = Msg("placed", BUT)
    /\ Len(orders[BUT]) = 1
    /\ orders[BUT][1].createdTime = now_ms - RetryWaitMs

\* C14: in LOOP mode a cycle whose attempts have all failed terminates only
\* that cycle: the exception of the last attempt never leaves main(), which
\* stays in its loop to sleep and start the next cycle.
C14_LoopSurvivesFailedCycle == cfg.RUN_MODE = "LOOP" => pc # "crashed"

\* ------------------------------------------------------------------------
\* Claims about alerts and trading inside a cycle
\* ------------------------------------------------------------------------
AdmissionWork == {"get_positions", "can_open_for_symbol", "set_leverage", "place_order",
                  "set_sl_tp"}

IsAlert(e) == e.call = "tg.send" /\ e.kind = "signal"

\* C17: for every symbol with a detected signal the alert is sent before the
\* admission check, and unless an exception ends the attempt, the attempt
\* leaves the symbol only by appending the signal to found, whether the
\* admission check ran, admitted or denied and whether or not an order was
\* placed; the audit rows are built from found, one per signal.
C17_AlertFirstAndAlwaysFound ==
    /\ [](/\ \A i \in 1..Len(calls) :
                calls[i].call \in AdmissionWork => \E j \in 1..(i - 1) : IsAlert(calls[j])
          /\ pc \in PastScanPcs \ {"alert"} =>
                /\ \E j \in 1..Len(calls) : IsAlert(calls[j])
                /\ sent[Len(sent)].kind \in {"signal", "placed"}
                /\ \E j \in 1..Len(sent) : sent[j] = Msg("signal", sym)
          /\ pc \in {"db", "summary"} =>
                /\ Len(rows_for_db) = Len(found)
                /\ \A i \in 1..Len(found) :
                      /\ rows_for_db[i].symbol = found[i].sym
                      /\ rows_for_db[i].side = found[i].side
                      /\ \E j \in 1..Len(sent) : sent[j] = Msg("signal", found[i].sym))
    /\ [][(pc \in PastScanPcs /\ pc' \notin PastScanPcs /\ raised' = "none") =>
             /\ pc = "append"
             /\ found' = Append(found, sig)
          ]_vars

C17_Witness ==
    /\ pc = "append"
    /\ si = 2
    /\ Len(found) = 1
    /\ found[1].sym = symbols[1]
    /\ \E j \in 1..Len(calls) : calls[j].call = "can_open_for_symbol" /\ ~calls[j].res

TradingPcs == {"admit_pos", "admit_ord", "leverage", "place", "placed_msg", "attach"}

\* C18: with AUTO_TRADE disabled a cycle never calls the admission check, set
\* leverage, place order or attach stop; the only exchange state it changes
\* is by the cancellations of the staleness sweep, which still runs for every
\* symbol before its scan.
C18_NoTradingWhenDisabled ==
    /\ [](~cfg.AUTO_TRADE =>
             /\ \A i \in 1..Len(calls) : calls[i].call \notin AdmissionWork
             /\ pc \notin TradingPcs
             /\ \A i \in 1..Len(sent) : sent[i].kind # "placed"
             /\ pc \in {"scan", "scanned"} \cup PastScanPcs =>
                   /\ calls[1].call = "get_open_orders"
                   /\ HasCall("sweep_done"))
    /\ [][~cfg.AUTO_TRADE =>
             /\ nextId' = nextId
             /\ \A s \in TradedSyms : \A j \in 1..Len(orders'[s]) :
                   \E i \in 1..Len(orders[s]) : orders[s][i] = orders'[s][j]
             /\ (orders' # orders /\ positions' = positions) =>
                   /\ pc = "sweep"
                   /\ \A s \in TradedSyms \ {sym} : orders'[s] = orders[s]
                   /\ \A i \in 1..Len(orders[sym]) :
                         (\A j \in 1..Len(orders'[sym]) : orders'[sym][j] # orders[sym][i])
                            => IsStale(orders[sym][i], now_ms, cfg.ORDER_TTL_MINUTES)
          ]_vars

C18_Witness ==
    /\ ~cfg.AUTO_TRADE
    /\ pc = "append"
    /\ sym = BUT
    /\ HasCall("cancel_order")
    /\ orders[BUT] = <<>>

====
